---- MODULE Spec2Model ----
(***************************************************************************)
(* ProjectETLPipeline (src/portfolio/etl/pipeline.py): extract a list of   *)
(* project records, enrich each one, fold it into the analytics, derive    *)
(* the insights and write the output files.                                *)
(*                                                                         *)
(* Representation.                                                         *)
(*  - A Python str is a sequence of one-character strings, so that split,  *)
(*    strip and the regular expressions are computed character by          *)
(*    character.  Labels that are only compared and counted (category,     *)
(*    status, technology names) are TLA+ strings.                          *)
(*  - A dict read from JSON is a TLA+ record; a key that is absent is      *)
(*    absent from DOMAIN.  A dict built by the code as a counter is a      *)
(*    sequence of <<key, count>> pairs in insertion order.                 *)
(*  - A date string is [form, t, off]: its lexical form, the wall clock    *)
(*    time it spells (in hours) and the UTC offset it spells (in hours).   *)
(*  - Instants and datetime.now() are in hours.                            *)
(***************************************************************************)
EXTENDS Integers, Sequences, FiniteSets, TLC

VARIABLES
    pc,                    \* position of the running call
    source,                \* assets/data/projects.json: "absent", "malformed" or a list
    raw_data,              \* run_pipeline: raw_data
    transformed_projects,  \* transform: transformed_projects
    analytics,             \* transform: analytics
    files,                 \* the four output files
    result,                \* the value run_pipeline returned
    exc,                   \* the exception in flight, "none" otherwise
    now,                   \* datetime.now()
    project,               \* _enrich_project_data: project
    enriched               \* _enrich_project_data: enriched

vars == <<pc, source, raw_data, transformed_projects, analytics, files,
          result, exc, now, project, enriched>>

(***************************************************************************)
(* Bounds                                                                  *)
(***************************************************************************)
MaxProjects == 2
MaxTitleLen == 4
MaxDescLen == 6

(***************************************************************************)
(* dict helpers                                                            *)
(***************************************************************************)
Has(d, k) == k \in DOMAIN d

Get(d, k, default) == IF k \in DOMAIN d THEN d[k] ELSE default

Min(a, b) == IF a < b THEN a ELSE b

Max(a, b) == IF a > b THEN a ELSE b

(***************************************************************************)
(* str helpers                                                             *)
(***************************************************************************)
Whitespace == {" ", "\n", "\t"}

Punctuation == {"!", "."}

\* \w of the re module: everything that is not white space, punctuation or a hyphen
IsWordChar(c) == c \notin (Whitespace \cup Punctuation \cup {"-"})

LowerChar(c) ==
    CASE c = "A" -> "a"
      [] c = "C" -> "c"
      [] c = "M" -> "m"
      [] OTHER -> c

Lower(s) == [i \in 1..Len(s) |-> LowerChar(s[i])]

RECURSIVE LStrip(_, _)
LStrip(s, chars) ==
    IF s = <<>> THEN <<>>
    ELSE IF Head(s) \in chars THEN LStrip(Tail(s), chars)
    ELSE s

RECURSIVE RStrip(_, _)
RStrip(s, chars) ==
    IF s = <<>> THEN <<>>
    ELSE IF s[Len(s)] \in chars THEN RStrip(SubSeq(s, 1, Len(s) - 1), chars)
    ELSE s

Strip(s, chars) == RStrip(LStrip(s, chars), chars)

\* re.sub(r'[^\w\s-]', '', s)
RemoveSpecial(s) ==
    SelectSeq(s, LAMBDA c : IsWordChar(c) \/ c \in Whitespace \/ c = "-")

SlugSeparators == Whitespace \cup {"_", "-"}

\* re.sub(r'[\s_-]+', '-', s)
RECURSIVE ReplaceSeparatorRuns(_)
ReplaceSeparatorRuns(s) ==
    IF s = <<>> THEN <<>>
    ELSE IF Head(s) \in SlugSeparators
         THEN <<"-">> \o ReplaceSeparatorRuns(LStrip(Tail(s), SlugSeparators))
         ELSE <<Head(s)>> \o ReplaceSeparatorRuns(Tail(s))

\* GenerateSlug without the final strip('-')
GenerateSlugNoTrim(title) ==
    ReplaceSeparatorRuns(RemoveSpecial(Strip(Lower(title), Whitespace)))

GenerateSlug(title) ==
    LET s1 == Strip(Lower(title), Whitespace)
        s2 == RemoveSpecial(s1)
        s3 == ReplaceSeparatorRuns(s2)
    IN  Strip(s3, {"-"})

\* str.split('. '): the pieces between the non-overlapping occurrences of ". "
RECURSIVE SplitFrom(_, _, _)
SplitFrom(s, i, cur) ==
    IF i > Len(s) THEN <<cur>>
    ELSE IF s[i] = "." /\ i + 1 <= Len(s) /\ s[i + 1] = " "
         THEN <<cur>> \o SplitFrom(s, i + 2, <<>>)
         ELSE SplitFrom(s, i + 1, Append(cur, s[i]))

SplitSentences(s) == SplitFrom(s, 1, <<>>)

\* '. '.join(parts)
RECURSIVE JoinSentences(_)
JoinSentences(parts) ==
    IF parts = <<>> THEN <<>>
    ELSE IF Len(parts) = 1 THEN parts[1]
    ELSE parts[1] \o <<".", " ">> \o JoinSentences(Tail(parts))

FormatDescription(description) ==
    IF description = <<>> THEN <<>>
    ELSE LET sentences == SplitSentences(description)
             n == Len(sentences)
         IN  IF n > 1
             THEN JoinSentences(SubSeq(sentences, 1, n - 1))
                      \o <<".", "\n", "\n">> \o sentences[n] \o <<".">>
             ELSE description

(***************************************************************************)
(* dates                                                                   *)
(***************************************************************************)
HoursPerDay == 24

RecentWindowDays == 180

NullDate == [form |-> "null", t |-> 0, off |-> 0]

EmptyDate == [form |-> "empty", t |-> 0, off |-> 0]

GarbageDate == [form |-> "garbage", t |-> 0, off |-> 0]

NaiveDate(t) == [form |-> "naive", t |-> t, off |-> 0]

ZuluDate(t) == [form |-> "Z", t |-> t, off |-> 0]

OffsetDate(t, off) == [form |-> "offset", t |-> t, off |-> off]

\* bool(value) of a date field
DateTruthy(d) == d.form \notin {"null", "empty"}

\* value.replace('Z', '+00:00'); None has no replace
ReplaceRaises(d) == d.form = "null"

ReplaceZ(d) == IF d.form = "Z" THEN OffsetDate(d.t, 0) ELSE d

\* datetime.fromisoformat
IsoParses(d) == d.form \in {"naive", "offset"}

IsAware(d) == d.form = "offset"

Instant(d) == d.t - d.off

\* TimedeltaDays rounding toward zero instead of down
TimedeltaDaysTruncated(hours) ==
    IF hours >= 0 THEN hours \div HoursPerDay ELSE -((-hours) \div HoursPerDay)

\* timedelta.days: the days field of the normalised timedelta
TimedeltaDays(hours) == hours \div HoursPerDay

CalculateDuration(start_date, end_date) ==
    IF ReplaceRaises(start_date) \/ ReplaceRaises(end_date) THEN 0
    ELSE LET start == ReplaceZ(start_date)
             end == ReplaceZ(end_date)
         IN  IF ~IsoParses(start) \/ ~IsoParses(end) THEN 0
             ELSE IF IsAware(start) # IsAware(end) THEN 0
             ELSE TimedeltaDays(Instant(end) - Instant(start))

(***************************************************************************)
(* _get_nested_value and _calculate_data_quality_score                     *)
(*                                                                         *)
(* The value under "content" is [isdict, items]: whether it is a mapping,  *)
(* and the mapping.  startDate and endDate hold date strings, every other  *)
(* tracked field holds a str or a list.                                    *)
(***************************************************************************)
NoneValue == [none |-> TRUE, key |-> "", val |-> <<>>]

\* bool(value) of the value found under key
ValueTruthy(key, val) ==
    IF key \in {"startDate", "endDate"} THEN DateTruthy(val)
    ELSE IF key = "content" THEN val.isdict /\ DOMAIN val.items # {}
    ELSE val # <<>>

\* the loop of _get_nested_value: cur is the object reached through key
RECURSIVE WalkPath(_, _, _, _)
WalkPath(cur, curIsDict, keys, key) ==
    IF keys = <<>> THEN [none |-> FALSE, key |-> key, val |-> cur]
    ELSE IF curIsDict /\ Head(keys) \in DOMAIN cur
         THEN LET v == cur[Head(keys)]
              IN  IF Head(keys) = "content"
                  THEN WalkPath(IF v.isdict THEN v.items ELSE v, v.isdict,
                                Tail(keys), Head(keys))
                  ELSE WalkPath(v, FALSE, Tail(keys), Head(keys))
         ELSE NoneValue

\* _get_nested_value(obj, path), path already split on '.'
GetNestedValue(obj, path) ==
    LET r == WalkPath(obj, TRUE, path, "")
    IN  IF r.none THEN NoneValue
        ELSE IF ValueTruthy(r.key, r.val) THEN r
        ELSE NoneValue

QualityChecks ==
    << <<(<<"title">>), 10>>,
       <<(<<"shortDescription">>), 15>>,
       <<(<<"technologies">>), 10>>,
       <<(<<"content", "overview">>), 20>>,
       <<(<<"content", "challenge">>), 10>>,
       <<(<<"content", "solution">>), 15>>,
       <<(<<"startDate">>), 5>>,
       <<(<<"endDate">>), 5>>,
       <<(<<"images">>), 10>> >>

\* AddWeight with score = weight in place of score += weight
AddWeightAssign(score, proj, check) ==
    IF ~GetNestedValue(proj, check[1]).none THEN check[2] ELSE score

\* one pass of the for loop of _calculate_data_quality_score
AddWeight(score, proj, check) ==
    IF ~GetNestedValue(proj, check[1]).none THEN score + check[2] ELSE score

RECURSIVE ScoreLoop(_, _, _)
ScoreLoop(proj, checks, score) ==
    IF checks = <<>> THEN score
    ELSE ScoreLoop(proj, Tail(checks), AddWeight(score, proj, Head(checks)))

CalculateDataQualityScore(proj) == Min(ScoreLoop(proj, QualityChecks, 0), 100)

(***************************************************************************)
(* _generate_content_hash, _generate_seo_metadata, _enrich_project_data    *)
(***************************************************************************)
\* json.dumps(project, sort_keys=True) is the record itself (a record has no
\* key order); the digest is kept symbolic
GenerateContentHash(proj) == [md5 |-> proj]

Truncate(s, n) == SubSeq(s, 1, Min(n, Len(s)))

\* ', '.join(names)
RECURSIVE JoinKeywords(_)
JoinKeywords(names) ==
    IF names = <<>> THEN <<>>
    ELSE IF Len(names) = 1 THEN names
    ELSE <<names[1], ", ">> \o JoinKeywords(Tail(names))

\* reading_time is the decimal numeral of the number kept here
GenerateSeoMetadata(proj) ==
    [meta_description |-> Truncate(Get(proj, "shortDescription", <<>>), 160),
     keywords |-> JoinKeywords(Truncate(Get(proj, "technologies", <<>>), 5)),
     reading_time |->
        LET overview == IF Has(proj, "content")
                        THEN Get(proj.content.items, "overview", <<>>)
                        ELSE <<>>
        IN  Min(Max(Len(overview) \div 200, 1), 10)]

\* the exception _enrich_project_data raises on project, "none" when it returns
EnrichException(proj) ==
    IF ~Has(proj, "slug") /\ ~Has(proj, "title") THEN "KeyError"
    ELSE IF Has(proj, "content") /\ ~proj.content.isdict THEN "AttributeError"
    ELSE "none"

\* f @@ g keeps f's value for a key of both: the assigned keys come first, the
\* copy of project last; when no duration is assigned durationPart adds no key
EnrichProjectData(proj) ==
    LET slugPart == IF ~Has(proj, "slug")
                    THEN [slug |-> GenerateSlug(proj.title)]
                    ELSE [slug |-> proj.slug]
        durationPart == IF Has(proj, "startDate") /\ Has(proj, "endDate")
                        THEN [duration_days |->
                                CalculateDuration(proj.startDate, proj.endDate)]
                        ELSE slugPart
    IN  [content_hash |-> GenerateContentHash(proj),
         seo_metadata |-> GenerateSeoMetadata(proj),
         data_quality_score |-> CalculateDataQualityScore(proj),
         formatted_description |->
             FormatDescription(Get(proj, "shortDescription", <<>>))]
        @@ durationPart @@ slugPart @@ proj

(***************************************************************************)
(* _is_recent_project and _update_analytics                                *)
(***************************************************************************)
\* datetime.now() is naive: comparing an aware datetime with it raises
\* TypeError, which the bare except turns into False
IsRecentProject(proj, clock) ==
    LET end_date == Get(proj, "endDate", Get(proj, "startDate", EmptyDate))
    IN  IF ~DateTruthy(end_date) THEN FALSE
        ELSE LET project_date == ReplaceZ(end_date)
                 six_months_ago == clock - RecentWindowDays * HoursPerDay
             IN  IF ~IsoParses(project_date) THEN FALSE
                 ELSE IF IsAware(project_date) THEN FALSE
                 ELSE project_date.t > six_months_ago

\* DictIncrement with counter[key] = 1 in place of the increment
DictIncrementOverwrite(counter, key) ==
    IF \E i \in 1..Len(counter) : counter[i][1] = key
    THEN counter
    ELSE Append(counter, <<key, 1>>)

\* counter[key] = counter.get(key, 0) + 1 on an insertion-ordered dict
DictIncrement(counter, key) ==
    IF \E i \in 1..Len(counter) : counter[i][1] = key
    THEN [i \in 1..Len(counter) |->
            IF counter[i][1] = key THEN <<key, counter[i][2] + 1>> ELSE counter[i]]
    ELSE Append(counter, <<key, 1>>)

DictGet(counter, key, default) ==
    IF \E i \in 1..Len(counter) : counter[i][1] = key
    THEN (CHOOSE pair \in {counter[i] : i \in 1..Len(counter)} : pair[1] = key)[2]
    ELSE default

DictKeys(counter) == {counter[i][1] : i \in 1..Len(counter)}

RECURSIVE DictSum(_)
DictSum(counter) ==
    IF counter = <<>> THEN 0 ELSE Head(counter)[2] + DictSum(Tail(counter))

RECURSIVE CountTechnologies(_, _)
CountTechnologies(counter, techs) ==
    IF techs = <<>> THEN counter
    ELSE CountTechnologies(DictIncrement(counter, Head(techs)), Tail(techs))

\* CategoryOf with an empty category treated as a missing one
CategoryOfEmptyAsMissing(proj) ==
    IF Has(proj, "category") /\ proj.category # "" THEN proj.category
    ELSE "uncategorized"

CategoryOf(proj) == Get(proj, "category", "uncategorized")

StatusOf(proj) == Get(proj, "status", "unknown")

RecentSummary(proj) ==
    [id |-> proj.id, title |-> proj.title,
     category |-> Get(proj, "category", ""),
     startDate |-> Get(proj, "startDate", EmptyDate)]

FeaturedSummary(proj) ==
    [id |-> proj.id, title |-> proj.title,
     category |-> Get(proj, "category", ""),
     technologies |-> Truncate(Get(proj, "technologies", <<>>), 3)]

IsFeatured(proj) == Get(proj, "featured", FALSE)

\* the exception _update_analytics raises on project, "none" when it returns
UpdateAnalyticsException(proj, clock) ==
    IF (IsRecentProject(proj, clock) \/ IsFeatured(proj))
       /\ (~Has(proj, "id") \/ ~Has(proj, "title"))
    THEN "KeyError"
    ELSE "none"

\* the analytics as _update_analytics leaves them when it raises: the three
\* counters are updated before the first summary is built
UpdateAnalyticsInterrupted(a, proj) ==
    [a EXCEPT
        !.categories = DictIncrement(@, CategoryOf(proj)),
        !.technologies = CountTechnologies(@, Get(proj, "technologies", <<>>)),
        !.status_distribution = DictIncrement(@, StatusOf(proj))]

\* UpdateAnalytics with the summaries inserted at the front of the two lists
UpdateAnalyticsPrepend(a, proj, clock) ==
    [a EXCEPT
        !.categories = DictIncrement(@, CategoryOf(proj)),
        !.technologies = CountTechnologies(@, Get(proj, "technologies", <<>>)),
        !.status_distribution = DictIncrement(@, StatusOf(proj)),
        !.recent_projects =
            IF IsRecentProject(proj, clock) THEN <<RecentSummary(proj)>> \o @ ELSE @,
        !.featured_projects =
            IF IsFeatured(proj) THEN <<FeaturedSummary(proj)>> \o @ ELSE @]

UpdateAnalytics(a, proj, clock) ==
    [a EXCEPT
        !.categories = DictIncrement(@, CategoryOf(proj)),
        !.technologies = CountTechnologies(@, Get(proj, "technologies", <<>>)),
        !.status_distribution = DictIncrement(@, StatusOf(proj)),
        !.recent_projects =
            IF IsRecentProject(proj, clock) THEN Append(@, RecentSummary(proj)) ELSE @,
        !.featured_projects =
            IF IsFeatured(proj) THEN Append(@, FeaturedSummary(proj)) ELSE @]

\* the analytics dict transform starts from
NewAnalytics(projects, clock) ==
    [total_projects |-> Len(projects),
     categories |-> <<>>,
     technologies |-> <<>>,
     status_distribution |-> <<>>,
     recent_projects |-> <<>>,
     featured_projects |-> <<>>,
     processing_timestamp |-> clock,
     data_quality_metrics |-> <<>>]

(***************************************************************************)
(* _generate_insights                                                      *)
(***************************************************************************)
\* max(counter.items(), key=lambda x: x[1]): the first entry with the largest count
FirstMax(counter) ==
    LET i == CHOOSE j \in 1..Len(counter) :
                 /\ \A k \in 1..Len(counter) : counter[k][2] <= counter[j][2]
                 /\ \A k \in 1..(j - 1) : counter[k][2] < counter[j][2]
    IN  [name |-> counter[i][1], count |-> counter[i][2]]

RECURSIVE SumDurations(_)
SumDurations(projects) ==
    IF projects = <<>> THEN 0
    ELSE Head(projects).duration_days + SumDurations(Tail(projects))

\* round(total / n, 1), in tenths: the nearest tenth, a tie going to the even one
RoundTenths(total, n) ==
    LET q == (10 * total) \div n
        r == (10 * total) % n
    IN  IF 2 * r < n THEN q
        ELSE IF 2 * r > n THEN q + 1
        ELSE IF q % 2 = 0 THEN q ELSE q + 1

\* the list the average is taken over: analytics.get('projects', [])
CompletedProjectsData(a) ==
    SelectSeq(Get(a, "projects", <<>>),
              LAMBDA p : Get(p, "status", "") = "completed" /\ Has(p, "duration_days"))

\* completion_rate is the quotient num / den
GenerateInsights(a) ==
    LET base == [completion_rate |->
                    IF a.total_projects > 0
                    THEN [num |-> DictGet(a.status_distribution, "completed", 0) * 100,
                          den |-> a.total_projects]
                    ELSE [num |-> 0, den |-> 1]]
        tech == IF a.technologies # <<>>
                THEN [most_used_technology |-> FirstMax(a.technologies)]
                ELSE base
        cat == IF a.categories # <<>>
               THEN [most_common_category |-> FirstMax(a.categories)]
               ELSE base
        data == CompletedProjectsData(a)
        avg == IF data # <<>>
               THEN [average_project_duration_days |->
                        [tenths |-> RoundTenths(SumDurations(data), Len(data))]]
               ELSE base
    IN  base @@ tech @@ cat @@ avg

(***************************************************************************)
(* Inputs                                                                  *)
(***************************************************************************)
ClockStart == 10000

NowTimes == {ClockStart}

ExampleTitle == <<"M", "y", " ", "C", "o", "o", "l", " ", "A", "p", "p", "!">>

ExampleDescription ==
    <<"I", "t", " ", "w", "o", "r", "k", "s", ".", " ",
      "I", "t", " ", "s", "c", "a", "l", "e", "s", ".", " ",
      "I", "t", " ", "s", "h", "i", "p", "s", ".">>

SeqsUpTo(S, n) == UNION {[1..k -> S] : k \in 0..n}

\* one choice per optional key: the key absent (the filler) or one of its values
Optional(key, values, filler) == {filler} \cup {key :> v : v \in values}

Technologies5 == <<"python", "sql", "spark", "airflow", "dbt">>

\* the records of projects.json the pipeline is run on
PipelineRecords ==
    LET base == [id |-> 1, title |-> ExampleTitle]
        dated == [startDate |-> NaiveDate(ClockStart - 30 * HoursPerDay),
                  endDate |-> NaiveDate(ClockStart - 10 * HoursPerDay)]
        featured == [featured |-> TRUE, technologies |-> Technologies5]
    IN  { c @@ s @@ f @@ d @@ base :
            c \in Optional("category", {"", "web"}, base),
            s \in Optional("status", {"completed"}, base),
            f \in {base, featured},
            d \in {base, dated} }
        \cup { [id |-> 1, title |-> ExampleTitle, technologies |-> <<"sql", "python">>],
               [title |-> ExampleTitle, featured |-> TRUE],
               [id |-> 1, slug |-> <<"a">>],
               [id |-> 1] }

Sources ==
    {[state |-> "absent", data |-> <<>>], [state |-> "malformed", data |-> <<>>]}
        \cup {[state |-> "ok", data |-> d] : d \in SeqsUpTo(PipelineRecords, MaxProjects)}

OutputFiles ==
    {"processed_projects.json", "project_analytics.json",
     "project_cards.html", "featured_projects.html"}

NoRecord == [id |-> 0]

NoResult == [status |-> "running"]

(***************************************************************************)
(* run_pipeline: extract, transform, load                                  *)
(***************************************************************************)
Init ==
    /\ pc = "extract"
    /\ source \in Sources
    /\ raw_data = <<>>
    /\ transformed_projects = <<>>
    /\ now \in NowTimes
    /\ analytics = NewAnalytics(<<>>, now)
    /\ files = [f \in OutputFiles |-> "absent"]
    /\ result = NoResult
    /\ exc = "none"
    /\ project = NoRecord
    /\ enriched = NoRecord

\* an exception leaves the stage: control passes to run_pipeline's except clause
Raise(e) ==
    /\ pc' = "except"
    /\ exc' = e

Extract ==
    /\ pc = "extract"
    /\ IF source.state = "absent"
       THEN Raise("FileNotFoundError") /\ UNCHANGED raw_data
       ELSE IF source.state = "malformed"
       THEN Raise("JSONDecodeError") /\ UNCHANGED raw_data
       ELSE /\ raw_data' = source.data
            /\ pc' = "transform"
            /\ UNCHANGED exc
    /\ UNCHANGED <<source, transformed_projects, analytics, files, result, now,
                   project, enriched>>

\* transform, up to the loop
TransformBegin ==
    /\ pc = "transform"
    /\ transformed_projects' = <<>>
    /\ analytics' = NewAnalytics(raw_data, now)
    /\ pc' = "fold"
    /\ UNCHANGED <<source, raw_data, files, result, exc, now, project, enriched>>

\* one pass of the loop of transform
TransformRecord ==
    /\ pc = "fold"
    /\ Len(transformed_projects) < Len(raw_data)
    /\ LET p == raw_data[Len(transformed_projects) + 1]
       IN  IF EnrichException(p) # "none"
           THEN Raise(EnrichException(p))
                /\ UNCHANGED <<transformed_projects, analytics>>
           ELSE LET e == EnrichProjectData(p)
                IN  IF UpdateAnalyticsException(e, now) # "none"
                    THEN /\ Raise(UpdateAnalyticsException(e, now))
                         /\ analytics' = UpdateAnalyticsInterrupted(analytics, e)
                         /\ UNCHANGED transformed_projects
                    ELSE /\ analytics' = UpdateAnalytics(analytics, e, now)
                         /\ transformed_projects' = Append(transformed_projects, e)
                         /\ UNCHANGED <<pc, exc>>
    /\ UNCHANGED <<source, raw_data, files, result, now, project, enriched>>

\* transform, after the loop
TransformEnd ==
    /\ pc = "fold"
    /\ Len(transformed_projects) = Len(raw_data)
    /\ analytics' = [insights |-> GenerateInsights(analytics)] @@ analytics
    /\ pc' = "load_projects"
    /\ UNCHANGED <<source, raw_data, transformed_projects, files, result, exc, now,
                   project, enriched>>

\* WriteFile with the files written so far removed when a write fails
WriteFileRollback(path, next) ==
    \E outcome \in {"open_fails", "write_fails", "ok"} :
        /\ files' = IF outcome = "ok"
                    THEN [files EXCEPT ![path] = "written"]
                    ELSE [f \in OutputFiles |-> "absent"]
        /\ IF outcome = "ok"
           THEN pc' = next /\ UNCHANGED exc
           ELSE Raise("OSError")

\* with open(path, 'w') as f: write: open may fail, the write may fail after
\* open has created or truncated the file, or the file is written
WriteFile(path, next) ==
    \E outcome \in {"open_fails", "write_fails", "ok"} :
        /\ files' = [files EXCEPT ![path] =
                        CASE outcome = "open_fails" -> @
                          [] outcome = "write_fails" -> "partial"
                          [] OTHER -> "written"]
        /\ IF outcome = "ok"
           THEN pc' = next /\ UNCHANGED exc
           ELSE Raise("OSError")

LoadProjects ==
    /\ pc = "load_projects"
    /\ WriteFile("processed_projects.json", "load_analytics")
    /\ UNCHANGED <<source, raw_data, transformed_projects, analytics, result, now,
                   project, enriched>>

LoadAnalytics ==
    /\ pc = "load_analytics"
    /\ WriteFile("project_analytics.json", "load_cards")
    /\ UNCHANGED <<source, raw_data, transformed_projects, analytics, result, now,
                   project, enriched>>

\* _generate_project_cards_html reads project['title'] and project['id']
CardsException(projects) ==
    IF \E i \in 1..Len(projects) : ~Has(projects[i], "title") \/ ~Has(projects[i], "id")
    THEN "KeyError"
    ELSE "none"

\* _generate_html_snippets, the project cards
LoadCards ==
    /\ pc = "load_cards"
    /\ IF CardsException(transformed_projects) # "none"
       THEN Raise(CardsException(transformed_projects)) /\ UNCHANGED files
       ELSE WriteFile("project_cards.html", "load_featured")
    /\ UNCHANGED <<source, raw_data, transformed_projects, analytics, result, now,
                   project, enriched>>

\* _generate_html_snippets, the featured projects
LoadFeatured ==
    /\ pc = "load_featured"
    /\ WriteFile("featured_projects.html", "loaded")
    /\ UNCHANGED <<source, raw_data, transformed_projects, analytics, result, now,
                   project, enriched>>

\* run_pipeline returns after load
ReturnSuccess ==
    /\ pc = "loaded"
    /\ result' = [status |-> "success",
                  projects_processed |-> Len(transformed_projects)]
    /\ pc' = "done"
    /\ UNCHANGED <<source, raw_data, transformed_projects, analytics, files, exc, now,
                   project, enriched>>

\* run_pipeline: except Exception as e
ReturnError ==
    /\ pc = "except"
    /\ result' = [status |-> "error", error |-> exc]
    /\ exc' = "none"
    /\ pc' = "done"
    /\ UNCHANGED <<source, raw_data, transformed_projects, analytics, files, now,
                   project, enriched>>

Next ==
    \/ Extract
    \/ TransformBegin
    \/ TransformRecord
    \/ TransformEnd
    \/ LoadProjects
    \/ LoadAnalytics
    \/ LoadCards
    \/ LoadFeatured
    \/ ReturnSuccess
    \/ ReturnError

Spec == Init /\ [][Next]_vars

(***************************************************************************)
(* _enrich_project_data on one record                                      *)
(***************************************************************************)
InitEnrich(records) ==
    /\ pc = "enrich"
    /\ project \in records
    /\ enriched = NoRecord
    /\ now \in NowTimes
    /\ source = [state |-> "ok", data |-> <<>>]
    /\ raw_data = <<>>
    /\ transformed_projects = <<>>
    /\ analytics = NewAnalytics(<<>>, now)
    /\ files = [f \in OutputFiles |-> "absent"]
    /\ result = NoResult
    /\ exc = "none"

EnrichStep ==
    /\ pc = "enrich"
    /\ IF EnrichException(project) # "none"
       THEN /\ pc' = "raised"
            /\ exc' = EnrichException(project)
            /\ UNCHANGED enriched
       ELSE /\ enriched' = EnrichProjectData(project)
            /\ pc' = "enriched"
            /\ UNCHANGED exc
    /\ UNCHANGED <<source, raw_data, transformed_projects, analytics, files, result,
                   now, project>>

\* ---- titles: _generate_slug ----
TitleAlphabet == {"A", "b", " ", "_", "-", "!"}

Titles == SeqsUpTo(TitleAlphabet, MaxTitleLen) \cup {ExampleTitle}

TitleRecords == {[id |-> 1, title |-> t] : t \in Titles}

\* the slug of a record is given as the title of a record
SlugAsTitle ==
    /\ pc = "enriched"
    /\ project.title # enriched.slug
    /\ project' = [id |-> 1, title |-> enriched.slug]
    /\ pc' = "enrich"
    /\ UNCHANGED <<source, raw_data, transformed_projects, analytics, files, result,
                   exc, now, enriched>>

NextSlug ==
    \/ EnrichStep
    \/ SlugAsTitle

SpecSlug == InitEnrich(TitleRecords) /\ [][NextSlug]_vars

\* ---- descriptions: _format_description ----
DescAlphabet == {"a", ".", " "}

Descriptions == SeqsUpTo(DescAlphabet, MaxDescLen) \cup {ExampleDescription}

DescriptionRecords ==
    {[id |-> 1, title |-> ExampleTitle, shortDescription |-> d] : d \in Descriptions}
        \cup {[id |-> 1, title |-> ExampleTitle]}

NextFormat == EnrichStep

SpecFormat == InitEnrich(DescriptionRecords) /\ [][NextFormat]_vars

\* ---- dates: _calculate_duration, _is_recent_project ----
\* hours before ClockStart: 200 days, 180 days, 180 days less an hour, 10 days,
\* 10 days less 10 hours, 10 days less 36 hours
HoursAgo == {200 * HoursPerDay, RecentWindowDays * HoursPerDay,
             RecentWindowDays * HoursPerDay - 1, 10 * HoursPerDay,
             10 * HoursPerDay - 10, 10 * HoursPerDay - 36}

DateValues ==
    {NullDate, EmptyDate, GarbageDate}
        \cup {NaiveDate(ClockStart - h) : h \in HoursAgo}
        \cup {ZuluDate(ClockStart - h) : h \in HoursAgo}
        \cup {OffsetDate(ClockStart - h, 2) : h \in HoursAgo}

DateRecords ==
    LET base == [id |-> 1, title |-> ExampleTitle]
    IN  { s @@ e @@ base :
            s \in Optional("startDate", DateValues, base),
            e \in Optional("endDate", DateValues, base) }

\* _update_analytics on the enriched record, from the analytics of a one-record run
FoldStep ==
    /\ pc = "enriched"
    /\ IF UpdateAnalyticsException(enriched, now) # "none"
       THEN /\ pc' = "raised"
            /\ exc' = UpdateAnalyticsException(enriched, now)
            /\ analytics' = UpdateAnalyticsInterrupted(NewAnalytics(<<project>>, now),
                                                       enriched)
       ELSE /\ analytics' = UpdateAnalytics(NewAnalytics(<<project>>, now), enriched, now)
            /\ pc' = "folded"
            /\ UNCHANGED exc
    /\ UNCHANGED <<source, raw_data, transformed_projects, files, result, now,
                   project, enriched>>

NextDates ==
    \/ EnrichStep
    \/ FoldStep

SpecDates == InitEnrich(DateRecords) /\ [][NextDates]_vars

\* ---- tracked fields: _calculate_data_quality_score ----
TextValues == {<<>>, <<"x">>}

ContentValues ==
    LET base == [notes |-> <<"n">>]
    IN  {[isdict |-> FALSE, items |-> base]}
            \cup { [isdict |-> TRUE, items |-> o @@ c @@ s @@ base] :
                     o \in Optional("overview", TextValues, base),
                     c \in Optional("challenge", TextValues, base),
                     s \in Optional("solution", TextValues, base) }

QualityRecords ==
    LET base == [id |-> 1, slug |-> <<"p">>]
    IN  { t @@ d @@ k @@ c @@ s @@ e @@ i @@ base :
            t \in Optional("title", TextValues, base),
            d \in Optional("shortDescription", TextValues, base),
            k \in Optional("technologies", {<<>>, <<"python">>}, base),
            c \in Optional("content", ContentValues, base),
            s \in Optional("startDate", {EmptyDate, NaiveDate(ClockStart)}, base),
            e \in Optional("endDate", {EmptyDate, NaiveDate(ClockStart)}, base),
            i \in Optional("images", {<<>>, <<"a.png">>}, base) }

TrackedPaths == {QualityChecks[i][1] : i \in 1..Len(QualityChecks)}

\* proj with the tracked field at path set to a non-empty value
WithTrackedField(proj, path) ==
    IF Len(path) = 2
    THEN LET items == IF Has(proj, "content") /\ proj.content.isdict
                      THEN proj.content.items
                      ELSE [notes |-> <<"n">>]
         IN  [content |-> [isdict |-> TRUE, items |-> (path[2] :> <<"x">>) @@ items]]
                 @@ proj
    ELSE IF path[1] \in {"startDate", "endDate"}
    THEN (path[1] :> NaiveDate(ClockStart)) @@ proj
    ELSE IF path[1] = "technologies" THEN [technologies |-> <<"python">>] @@ proj
    ELSE IF path[1] = "images" THEN [images |-> <<"a.png">>] @@ proj
    ELSE (path[1] :> <<"x">>) @@ proj

\* a tracked field that was missing or empty is filled in and the record is
\* enriched again
AddTrackedField ==
    /\ pc = "enriched"
    /\ \E path \in TrackedPaths :
          /\ GetNestedValue(project, path).none
          /\ project' = WithTrackedField(project, path)
          /\ enriched' = EnrichProjectData(project')
    /\ UNCHANGED <<pc, source, raw_data, transformed_projects, analytics, files,
                   result, exc, now>>

NextQuality ==
    \/ EnrichStep
    \/ AddTrackedField

SpecQuality == InitEnrich(QualityRecords) /\ [][NextQuality]_vars

(***************************************************************************)
(* Properties of run_pipeline (Spec)                                       *)
(***************************************************************************)
\* transform has returned: the analytics carry the insights
TransformReturned == Has(analytics, "insights")

Indices(seq, Test(_)) == {i \in 1..Len(seq) : Test(seq[i])}

\* the position of index i among the indices S, in increasing order
Rank(i, S) == Cardinality({j \in S : j <= i})

\* C1: in the analytics transform returns, the counts of categories and the
\* counts of status_distribution both add up to total_projects
C1_DistributionTotals ==
    TransformReturned =>
        /\ DictSum(analytics.categories) = analytics.total_projects
        /\ DictSum(analytics.status_distribution) = analytics.total_projects
        /\ analytics.total_projects = Len(raw_data)

\* C1 witness: two records without a category, one with and one without a
\* status, have been transformed
C1_Witness ==
    /\ TransformReturned
    /\ analytics.total_projects = 2
    /\ analytics.categories = << <<"uncategorized", 2>> >>
    /\ Len(analytics.status_distribution) = 2

\* the enriched projects the average duration is to be taken over
CompletedWithDuration ==
    SelectSeq(transformed_projects,
              LAMBDA p : Get(p, "status", "") = "completed" /\ Has(p, "duration_days"))

\* C2: the insights hold average_project_duration_days, the rounded average
\* of duration_days over the completed projects that have one, exactly when
\* there is such a project
C2_AverageDuration ==
    TransformReturned =>
        LET data == CompletedWithDuration
            insights == analytics.insights
        IN  /\ Has(insights, "average_project_duration_days") <=> data # <<>>
            /\ Has(insights, "average_project_duration_days") =>
                  insights.average_project_duration_days.tenths
                      = RoundTenths(SumDurations(data), Len(data))

\* the label a folded record is counted under, an empty category under itself
CountedCategory(p) == IF Has(p, "category") THEN p.category ELSE "uncategorized"

CountedStatus(p) == IF Has(p, "status") THEN p.status ELSE "unknown"

CategoryLabels == DictKeys(analytics.categories) \cup {"uncategorized", "", "web"}

StatusLabels == DictKeys(analytics.status_distribution) \cup {"unknown", "completed"}

\* C5 as stated: the empty string is never a key of the categories mapping
C5_NoEmptyCategoryKey == "" \notin DictKeys(analytics.categories)

\* C5 as amended: after any number of completed folds every label's count is the number
\* of folded records counted under it, where a record without a category counts
\* under "uncategorized", a record without a status under "unknown", and a
\* record with a category, the empty one included, under that category
C5_CountsByLabel ==
    (pc = "fold" \/ TransformReturned) =>
        /\ \A c \in CategoryLabels :
              DictGet(analytics.categories, c, 0)
                  = Cardinality(Indices(transformed_projects,
                                        LAMBDA p : CountedCategory(p) = c))
        /\ \A st \in StatusLabels :
              DictGet(analytics.status_distribution, st, 0)
                  = Cardinality(Indices(transformed_projects,
                                        LAMBDA p : CountedStatus(p) = st))
        /\ \A i \in 1..Len(analytics.categories) : analytics.categories[i][2] > 0

\* C5 witness: a record without category and status and a record with an
\* empty category have been folded
C5_Witness ==
    /\ pc = "fold"
    /\ analytics.categories = << <<"uncategorized", 1>>, <<"", 1>> >>
    /\ "unknown" \in DictKeys(analytics.status_distribution)

FilesWritten == {f \in OutputFiles : files[f] = "written"}

\* C9: run_pipeline lets no exception out and returns a status; after a
\* failure of extract or transform no output file has been touched; a file
\* once written stays written, whatever fails later; and the status is
\* "success" only with all four files written
C9_ErrorHandling ==
    /\ [](/\ exc # "none" => pc = "except"
          /\ pc = "done" => result.status \in {"success", "error"}
          /\ pc # "done" => result = NoResult
          /\ (result.status = "error" /\ ~TransformReturned) =>
                \A f \in OutputFiles : files[f] = "absent"
          /\ (result.status = "error" /\ TransformReturned) => FilesWritten # OutputFiles
          /\ result.status = "success" => FilesWritten = OutputFiles)
    /\ [][\A f \in OutputFiles : files[f] = "written" => files'[f] = "written"]_vars

\* C9 witness: load failed while writing the third file and the two JSON
\* files are still there
C9_Witness ==
    /\ pc = "done"
    /\ result.status = "error"
    /\ FilesWritten = {"processed_projects.json", "project_analytics.json"}
    /\ files["project_cards.html"] = "partial"

FeaturedIndices == Indices(transformed_projects, LAMBDA p : Get(p, "featured", FALSE))

RecentIndices == Indices(transformed_projects, LAMBDA p : IsRecentProject(p, now))

\* C10: at every point of the loop the enriched list is the enrichment of a
\* prefix of the input, in order; featured_projects holds one summary per
\* featured record and recent_projects one per recent record, in input order,
\* a featured summary carrying the first 3 technologies at most; when transform
\* returns every record has been enriched
C10_SourceOrder ==
    /\ Len(transformed_projects) <= Len(raw_data)
    /\ \A i \in 1..Len(transformed_projects) :
          /\ transformed_projects[i].content_hash = [md5 |-> raw_data[i]]
          /\ \A k \in DOMAIN raw_data[i] : transformed_projects[i][k] = raw_data[i][k]
    /\ TransformReturned => Len(transformed_projects) = Len(raw_data)
    /\ Len(analytics.featured_projects) = Cardinality(FeaturedIndices)
    /\ \A i \in FeaturedIndices :
          LET summary == analytics.featured_projects[Rank(i, FeaturedIndices)]
              techs == Get(raw_data[i], "technologies", <<>>)
          IN  /\ summary.category = Get(raw_data[i], "category", "")
              /\ summary.id = raw_data[i].id
              /\ Len(summary.technologies) <= 3
              /\ summary.technologies = SubSeq(techs, 1, Min(3, Len(techs)))
    /\ Len(analytics.recent_projects) = Cardinality(RecentIndices)
    /\ \A i \in RecentIndices :
          LET summary == analytics.recent_projects[Rank(i, RecentIndices)]
          IN  /\ summary.category = Get(raw_data[i], "category", "")
              /\ summary.startDate = Get(raw_data[i], "startDate", EmptyDate)

\* C10 witness: two featured, recent records of different categories, each
\* with five technologies, have been transformed
C10_Witness ==
    /\ TransformReturned
    /\ Len(transformed_projects) = 2
    /\ Len(analytics.featured_projects) = 2
    /\ Len(analytics.recent_projects) = 2
    /\ analytics.featured_projects[1].category # analytics.featured_projects[2].category
    /\ analytics.recent_projects[1].category # analytics.recent_projects[2].category
    /\ Len(raw_data[1].technologies) = 5
    /\ Len(analytics.featured_projects[1].technologies) = 3

(***************************************************************************)
(* Properties of the enrichment of one record                              *)
(***************************************************************************)
\* ". " starts at position i of d
SeparatorAt(d, i) == i + 1 <= Len(d) /\ d[i] = "." /\ d[i + 1] = " "

SeparatorPositions(d) == {i \in 1..Len(d) : SeparatorAt(d, i)}

\* two or more sentences separated by ". ", the last one ending with a period:
\* d starts with a letter and ends with a period, a space is followed by a
\* letter, and a period is the last character or is followed by a space
IsSentences(d) ==
    /\ d # <<>>
    /\ d[1] \notin {".", " "}
    /\ d[Len(d)] = "."
    /\ SeparatorPositions(d) # {}
    /\ \A i \in 1..(Len(d) - 1) :
          /\ d[i] = " " => d[i + 1] \notin {".", " "}
          /\ d[i] = "." => d[i + 1] = " "

\* d with its last ". " replaced by ".\n\n"
WithParagraphBreak(d) ==
    LET i == CHOOSE j \in SeparatorPositions(d) : \A k \in SeparatorPositions(d) : k <= j
    IN  SubSeq(d, 1, i) \o <<"\n", "\n">> \o SubSeq(d, i + 2, Len(d))

\* C4: for a description of two or more sentences that ends with a period,
\* formatted_description is the description with its last ". " replaced by
\* ".\n\n" and nothing else added or removed
C4_ParagraphBreak ==
    (pc = "enriched" /\ Has(project, "shortDescription")
        /\ IsSentences(project.shortDescription)) =>
        enriched.formatted_description = WithParagraphBreak(project.shortDescription)

StartAndEnd == Has(project, "startDate") /\ Has(project, "endDate")

\* the value is a str that datetime.fromisoformat reads once its Z is replaced
DateParses(d) == d.form \in {"naive", "Z", "offset"}

DateIsAware(d) == d.form \in {"Z", "offset"}

BothParse == DateParses(project.startDate) /\ DateParses(project.endDate)

SameKind == DateIsAware(project.startDate) = DateIsAware(project.endDate)

\* end minus start, in hours
HoursBetween == Instant(project.endDate) - Instant(project.startDate)

\* C6 as stated: when both dates parse, duration_days is end minus start in
\* whole days rounded toward zero, and it is 0 only for a difference of less
\* than a day or a date that does not parse; enrichment never raises
C6_DurationTruncated ==
    (pc = "enriched" /\ StartAndEnd) =>
        LET d == enriched.duration_days
        IN  /\ BothParse =>
                  IF HoursBetween >= 0
                  THEN d * HoursPerDay <= HoursBetween
                       /\ HoursBetween < (d + 1) * HoursPerDay
                  ELSE (d - 1) * HoursPerDay < HoursBetween
                       /\ HoursBetween <= d * HoursPerDay
            /\ ~BothParse => d = 0

\* C6 as amended: duration_days is present exactly when the record has both
\* keys; when both dates parse and both or neither carry a UTC offset it is
\* end minus start in whole days rounded down (toward minus infinity), and
\* otherwise it is 0; enrichment never raises on a date
C6_DurationFloor ==
    /\ exc = "none"
    /\ pc = "enriched" =>
          /\ Has(enriched, "duration_days") <=> StartAndEnd
          /\ StartAndEnd =>
                LET d == enriched.duration_days
                IN  IF BothParse /\ SameKind
                    THEN /\ d * HoursPerDay <= HoursBetween
                         /\ HoursBetween < (d + 1) * HoursPerDay
                    ELSE d = 0

\* C6 witness: the end date is 36 hours before the start date and the
\* duration is -2
C6_Witness ==
    /\ pc = "enriched"
    /\ StartAndEnd
    /\ BothParse
    /\ SameKind
    /\ HoursBetween = -36
    /\ enriched.duration_days = -2

\* the record has an effective date, endDate before startDate
HasEffectiveDate == Has(project, "endDate") \/ Has(project, "startDate")

EffectiveDate == IF Has(project, "endDate") THEN project.endDate ELSE project.startDate

InRecentProjects == analytics.recent_projects # <<>>

\* C3: a record whose effective date parses, with or without a Z or a UTC
\* offset, is in recent_projects exactly when that date is later than the run
\* time less 180 days (the clock of the run is taken to be UTC); a record
\* without a date or with one that does not parse is not
C3_RecentWindow ==
    pc = "folded" =>
        IF HasEffectiveDate /\ DateParses(EffectiveDate)
        THEN InRecentProjects
                 <=> Instant(EffectiveDate) > now - RecentWindowDays * HoursPerDay
        ELSE ~InRecentProjects

TruthyText(d, k) == Has(d, k) /\ d[k] # <<>>

TruthyDate(d, k) == Has(d, k) /\ d[k].form \notin {"null", "empty"}

TruthyContent(d, k) ==
    Has(d, "content") /\ d.content.isdict /\ TruthyText(d.content.items, k)

Weight(present, w) == IF present THEN w ELSE 0

\* the sum of the weights of the tracked fields of d that hold a truthy value
WeightSum(d) ==
    Weight(TruthyText(d, "title"), 10)
        + Weight(TruthyText(d, "shortDescription"), 15)
        + Weight(TruthyText(d, "technologies"), 10)
        + Weight(TruthyContent(d, "overview"), 20)
        + Weight(TruthyContent(d, "challenge"), 10)
        + Weight(TruthyContent(d, "solution"), 15)
        + Weight(TruthyDate(d, "startDate"), 5)
        + Weight(TruthyDate(d, "endDate"), 5)
        + Weight(TruthyText(d, "images"), 10)

\* C7: data_quality_score is the sum of the weights of the tracked fields
\* that hold a truthy value, it lies between 0 and 100, and filling in a
\* tracked field that was missing or empty never lowers it
C7_QualityScore ==
    /\ [](pc = "enriched" =>
            /\ enriched.data_quality_score = WeightSum(project)
            /\ enriched.data_quality_score >= 0
            /\ enriched.data_quality_score <= 100)
    /\ [][(pc = "enriched" /\ pc' = "enriched") =>
            enriched'.data_quality_score >= enriched.data_quality_score]_vars

\* C7 witness: a record with a title and a description and no other tracked
\* field scores 25
C7_Witness ==
    /\ pc = "enriched"
    /\ TruthyText(project, "title")
    /\ TruthyText(project, "shortDescription")
    /\ enriched.data_quality_score = 25

IsSlug(s) ==
    /\ \A i \in 1..Len(s) : s[i] \notin Whitespace /\ s[i] # "_"
    /\ \A i \in 1..(Len(s) - 1) : ~(s[i] = "-" /\ s[i + 1] = "-")
    /\ s # <<>> => s[1] # "-" /\ s[Len(s)] # "-"

\* lower-case word characters joined by single hyphens
IsValidSlug(s) ==
    /\ IsSlug(s)
    /\ \A i \in 1..Len(s) : IsWordChar(s[i]) \/ s[i] = "-"
    /\ Lower(s) = s

\* C8: the slug of a title is its own slug, it holds no white space, no
\* underscore, no two hyphens in a row and no hyphen at either end, and the
\* slug of the empty title is empty; a title that is already a slug is its
\* own slug
C8_SlugIdempotent ==
    pc = "enriched" =>
        /\ GenerateSlug(enriched.slug) = enriched.slug
        /\ IsSlug(enriched.slug)
        /\ project.title = <<>> => enriched.slug = <<>>
        /\ IsValidSlug(project.title) => enriched.slug = project.title

\* C8 witness: a title with upper case, punctuation and runs of separators at
\* both ends has been slugged to a slug that differs from it
C8_Witness ==
    /\ pc = "enriched"
    /\ Len(project.title) = MaxTitleLen
    /\ project.title[1] = "-"
    /\ project.title[2] = "A"
    /\ enriched.slug # <<>>
    /\ enriched.slug # project.title

====
